---- MODULE Spec2Model ----
(***************************************************************************)
(* Van Emde Boas tree (struct V) of VanEmdeBoasTree.cpp (power-of-two      *)
(* split, shifts and masks) and of its generic sqrt-split variant          *)
(* (division and modulo), driven by a harness that keeps the direct access *)
(* table of check_correctness next to the tree.                            *)
(***************************************************************************)
EXTENDS Integers, Sequences, FiniteSets, TLC

VARIABLES VEB, table, fault, aborted, twin, query

vars == <<VEB, table, fault, aborted, twin, query>>

(* ---------------- bounds of the model ---------------- *)

\* most members the harness keeps in the tree at once
MaxMembers == 3

\* largest size and bit width of the structures that are only constructed,
\* filled with one element and emptied again
MaxSize == 40
MaxBits == 6

(* ---------------- program constants ---------------- *)

SMALL == 32

\* size descriptors the harness constructs: V(int size) of the generic
\* variant, V(int bits) of the power-of-two variant
GenericSizes == {1, 8, 32, 1024}
Pow2Bits == {0, 3, 5, 10}

\* the values the harness draws for a universe of three levels (1024): some
\* share a block of the root and a block of that block, some only a block of
\* the root, some lie in distant blocks
DeepKeys == {0, 1, 2, 5, 33, 34, 700, 1023}

(* ---------------- integer helpers (C++ int operators) ---------------- *)

\* 1 << n
Shl1(n) == 2 ^ n

\* m >> i & 1
Bit(m, i) == (m \div Shl1(i)) % 2

RECURSIVE BitOr(_, _)
\* a | b (two's complement; \div 2 is the arithmetic shift)
BitOr(a, b) ==
    IF a = 0 THEN b
    ELSE IF b = 0 THEN a
    ELSE IF a = -1 \/ b = -1 THEN -1
    ELSE (IF (a % 2 = 1) \/ (b % 2 = 1) THEN 1 ELSE 0) + 2 * BitOr(a \div 2, b \div 2)

RECURSIVE BitAnd(_, _)
\* a & b (two's complement; \div 2 is the arithmetic shift)
BitAnd(a, b) ==
    IF a = 0 \/ b = 0 THEN 0
    ELSE IF a = -1 THEN b
    ELSE IF b = -1 THEN a
    ELSE (IF (a % 2 = 1) /\ (b % 2 = 1) THEN 1 ELSE 0) + 2 * BitAnd(a \div 2, b \div 2)

\* a plausible bug: small ^= 1 << x
SetBitToggles(m, i) == IF Bit(m, i) = 1 THEN m - Shl1(i) ELSE m + Shl1(i)

\* a plausible bug: small |= x
SetBitNoShift(m, i) == BitOr(m, i)

\* m | 1 << i
SetBit(m, i) == IF Bit(m, i) = 1 THEN m ELSE m + Shl1(i)

\* a plausible bug: small ^= 1 << x in the leaf erase
ClearBitToggles(m, i) == IF Bit(m, i) = 1 THEN m - Shl1(i) ELSE m + Shl1(i)

\* m & ~(1 << i)
ClearBit(m, i) == IF Bit(m, i) = 1 THEN m - Shl1(i) ELSE m

\* (int) sqrt(U)
Sqrt(n) == CHOOSE r \in 0..n : r * r <= n /\ (r + 1) * (r + 1) > n

(* ---------------- construction ---------------- *)

\* a plausible bug: B blocks, without the loop that rounds up
BlockCountNoLoop(blocks, B, U) == blocks

RECURSIVE BlockCount(_, _, _)
\* while (blocks * B < U) ++blocks;
BlockCount(blocks, B, U) ==
    IF blocks * B < U THEN BlockCount(blocks + 1, B, U) ELSE blocks

RECURSIVE NewGeneric(_)
\* V::V(int size) of the generic variant
NewGeneric(size) ==
    LET U == size
        B == Sqrt(U)
        blocks == BlockCount(B, B, U)
    IN  [pol |-> "generic", U |-> U, B |-> B, min |-> -1, max |-> -1, small |-> 0,
         summary |-> IF U >= SMALL THEN NewGeneric(blocks) ELSE <<>>,
         block |-> IF U >= SMALL THEN [i \in 1..blocks |-> NewGeneric(B)] ELSE <<>>]

RECURSIVE NewPow2(_)
\* V::V(int bits) of the power-of-two variant
NewPow2(bits) ==
    LET U == Shl1(bits)
        B == bits \div 2
        B2 == (bits + 1) \div 2
    IN  [pol |-> "pow2", U |-> U, B |-> B, min |-> -1, max |-> -1, small |-> 0,
         summary |-> IF U >= SMALL THEN NewPow2(B2) ELSE <<>>,
         block |-> IF U >= SMALL THEN [i \in 1..Shl1(B2) |-> NewPow2(B)] ELSE <<>>]

(* ---------------- decomposition policy ---------------- *)

\* a plausible bug: the block count where the code has the block size
indexByBlockCount(v, i, j) ==
    IF v.pol = "pow2" THEN BitOr(i * Len(v.block), j) ELSE i * Len(v.block) + j

index(v, i, j) ==
    IF v.pol = "pow2" THEN BitOr(i * Shl1(v.B), j) ELSE i * v.B + j

\* a plausible bug: x >> B2, the upper half of the bits (B2 = (bits + 1) >> 1)
\* where the code shifts by the lower half B
highByUpperBits(v, x) ==
    IF v.pol = "pow2" THEN x \div Len(v.block) ELSE x \div v.B

high(v, x) ==
    IF v.pol = "pow2" THEN x \div Shl1(v.B) ELSE x \div v.B

\* a plausible bug: x & (1 << B) where the code has x & ((1 << B) - 1)
lowMasksOneBit(v, x) ==
    IF v.pol = "pow2" THEN BitAnd(x, Shl1(v.B)) ELSE x % v.B

low(v, x) ==
    IF v.pol = "pow2" THEN BitAnd(x, Shl1(v.B) - 1) ELSE x % v.B

\* block[i] (the vector is 0-based, the sequence 1-based)
Blk(v, i) == v.block[i + 1]

(* ---------------- insert ---------------- *)

RECURSIVE insert(_, _)

\* a plausible bug: the test of block[i]->min is dropped, summary->insert(i)
\* runs on every insert
BlockIsEmptyAlways(v, i) == TRUE

\* block[i]->min == -1, the test in front of summary->insert(i)
BlockIsEmpty(v, i) == Blk(v, i).min = -1

\* if (block[i]->min == -1) summary->insert(i);   gives the summary
InsertSummary(v, i) ==
    IF BlockIsEmpty(v, i) THEN insert(v.summary, i) ELSE v.summary

\* a plausible bug: if (x < min) min = x; where the code swaps x and min
InsertBelowNoSwap(v, x0) ==
    LET x == x0
        mn == IF x0 < v.min THEN x0 ELSE v.min
        mx == IF x > v.max THEN x ELSE v.max
    IN  IF v.U < SMALL
        THEN [v EXCEPT !.min = mn, !.max = mx, !.small = SetBit(v.small, x)]
        ELSE
            LET i == high(v, x)
                j == low(v, x)
            IN  [v EXCEPT !.min = mn, !.max = mx, !.summary = InsertSummary(v, i),
                          !.block[i + 1] = insert(Blk(v, i), j)]

\* insert into a non-empty node: the statements after the min == -1 return
InsertBelow(v, x0) ==
    LET x == IF x0 < v.min THEN v.min ELSE x0
        mn == IF x0 < v.min THEN x0 ELSE v.min
        mx == IF x > v.max THEN x ELSE v.max
    IN  IF v.U < SMALL
        THEN [v EXCEPT !.min = mn, !.max = mx, !.small = SetBit(v.small, x)]
        ELSE
            LET i == high(v, x)
                j == low(v, x)
            IN  [v EXCEPT !.min = mn, !.max = mx, !.summary = InsertSummary(v, i),
                          !.block[i + 1] = insert(Blk(v, i), j)]

\* a plausible bug: the return after min = max = x is missing, the insert into
\* an empty node goes on to the mask or the children
insertEmptyStores(v, x0) ==
    IF v.min = -1 THEN InsertBelow([v EXCEPT !.min = x0, !.max = x0], x0)
    ELSE InsertBelow(v, x0)

\* not the code: an insert that returns early when x is the node's min
insertSkipsMin(v, x0) ==
    IF v.min = -1 THEN [v EXCEPT !.min = x0, !.max = x0]
    ELSE IF x0 = v.min THEN v
    ELSE InsertBelow(v, x0)

insert(v, x0) ==
    IF v.min = -1 THEN [v EXCEPT !.min = x0, !.max = x0]
    ELSE InsertBelow(v, x0)

RECURSIVE InsertCalls(_, _)
\* the nested calls that insert(x0) on node v makes, at every depth: one record
\* per call, with the node that makes it (parent), the child it goes to
\* (callee "summary", or "block" i) and the argument
InsertCalls(v, x0) ==
    IF v.min = -1 \/ v.U < SMALL THEN {}
    ELSE
        LET x == IF x0 < v.min THEN v.min ELSE x0
            i == high(v, x)
            j == low(v, x)
            toSummary ==
                IF BlockIsEmpty(v, i)
                THEN {[op |-> "insert", callee |-> "summary", parent |-> v, i |-> i, arg |-> i]}
                         \cup InsertCalls(v.summary, i)
                ELSE {}
        IN  toSummary
                \cup {[op |-> "insert", callee |-> "block", parent |-> v, i |-> i, arg |-> j]}
                \cup InsertCalls(Blk(v, i), j)

(* ---------------- erase ---------------- *)

RECURSIVE EraseScan(_, _)

\* a plausible bug: the bit promoted to min stays in the mask
EraseScanKeepsBit(v, i) ==
    IF i >= v.U THEN v
    ELSE IF Bit(v.small, i) = 1
         THEN IF v.min = -1
              THEN EraseScan([v EXCEPT !.min = i, !.max = i], i + 1)
              ELSE EraseScan([v EXCEPT !.max = i], i + 1)
         ELSE EraseScan(v, i + 1)

\* the loop of the leaf branch of erase, from position i on
EraseScan(v, i) ==
    IF i >= v.U THEN v
    ELSE IF Bit(v.small, i) = 1
         THEN IF v.min = -1
              THEN EraseScan([v EXCEPT !.min = i, !.small = ClearBit(v.small, i), !.max = i], i + 1)
              ELSE EraseScan([v EXCEPT !.max = i], i + 1)
         ELSE EraseScan(v, i + 1)

\* a plausible bug: max is not reset when the leaf's maximum is erased
EraseLeafKeepsMax(v, x) ==
    LET mn == IF x = v.min THEN -1 ELSE v.min
    IN  EraseScan([v EXCEPT !.min = mn, !.small = ClearBit(v.small, x)], 0)

\* the leaf branch of erase
EraseLeaf(v, x) ==
    LET mn == IF x = v.min THEN -1 ELSE v.min
        mx == IF x = v.max THEN mn ELSE v.max
    IN  EraseScan([v EXCEPT !.min = mn, !.max = mx, !.small = ClearBit(v.small, x)], 0)

RECURSIVE erase(_, _)

\* a plausible bug: the summary keeps a block that became empty
EraseSummaryKeeps(v, b, i) == v.summary

\* if (block[high(x)]->min == -1) summary->erase(high(x));   gives the summary;
\* b is block[high(x)] after its erase, i is high(x)
EraseSummary(v, b, i) ==
    IF b.min = -1 THEN erase(v.summary, i) ELSE v.summary

\* a plausible bug: max is left as it was when the maximum is erased
EraseMaxStale(v, x, mn, s, blocks) == v.max

\* if (x == max) { ... }   gives max; mn is min, s the summary and blocks the
\* blocks at that point
EraseMax(v, x, mn, s, blocks) ==
    IF x = v.max
    THEN IF s.max = -1 THEN mn ELSE index(v, s.max, blocks[s.max + 1].max)
    ELSE v.max

erase(v, x0) ==
    IF v.U < SMALL THEN EraseLeaf(v, x0)
    ELSE IF x0 = v.min /\ v.summary.min = -1
    THEN [v EXCEPT !.min = -1, !.max = -1]
    ELSE
        LET x == IF x0 = v.min
                 THEN index(v, v.summary.min, Blk(v, v.summary.min).min)
                 ELSE x0
            mn == IF x0 = v.min THEN x ELSE v.min
            b == erase(Blk(v, high(v, x)), low(v, x))
            s == EraseSummary(v, b, high(v, x))
            blocks == [v.block EXCEPT ![high(v, x) + 1] = b]
        IN  [v EXCEPT !.min = mn, !.max = EraseMax(v, x, mn, s, blocks),
                      !.summary = s, !.block = blocks]

RECURSIVE EraseCalls(_, _)
\* the nested calls that erase(x0) on node v makes, at every depth
EraseCalls(v, x0) ==
    IF v.U < SMALL \/ (x0 = v.min /\ v.summary.min = -1) THEN {}
    ELSE
        LET x == IF x0 = v.min
                 THEN index(v, v.summary.min, Blk(v, v.summary.min).min)
                 ELSE x0
            i == high(v, x)
            j == low(v, x)
            b == erase(Blk(v, i), j)
            toSummary ==
                IF b.min = -1
                THEN {[op |-> "erase", callee |-> "summary", parent |-> v, i |-> i, arg |-> i]}
                         \cup EraseCalls(v.summary, i)
                ELSE {}
        IN  {[op |-> "erase", callee |-> "block", parent |-> v, i |-> i, arg |-> j]}
                \cup EraseCalls(Blk(v, i), j)
                \cup toSummary

\* the node a nested call runs on, as it is when the call starts (the summary
\* call of an erase starts after the block's erase, which leaves the summary
\* as it was)
Callee(c) == IF c.callee = "summary" THEN c.parent.summary ELSE Blk(c.parent, c.i)

(* ---------------- queries ---------------- *)

RECURSIVE LeafScan(_, _)
\* for (int i = ...; i < U; i++) if (small >> i & 1) return i; return -1;
LeafScan(v, i) ==
    IF i >= v.U THEN -1
    ELSE IF Bit(v.small, i) = 1 THEN i ELSE LeafScan(v, i + 1)

\* a plausible bug: <= where the code has <
InBlockOffByOne(v, i, j) == j <= Blk(v, i).max

\* if (j < block[i]->max): a larger element exists within block i
InBlock(v, i, j) == j < Blk(v, i).max

RECURSIVE successor(_, _)
successor(v, x) ==
    IF x < v.min THEN v.min
    ELSE IF v.U < SMALL THEN LeafScan(v, x + 1)
    ELSE
        LET i == high(v, x)
            j == low(v, x)
        IN  IF InBlock(v, i, j)
            THEN index(v, i, successor(Blk(v, i), j))
            ELSE
                LET i2 == successor(v.summary, i)
                IN  IF i2 # -1 THEN index(v, i2, Blk(v, i2).min) ELSE -1

RECURSIVE SuccessorCalls(_, _)
\* the nested calls that successor(x) on node v makes, at every depth
SuccessorCalls(v, x) ==
    IF x < v.min \/ v.U < SMALL THEN {}
    ELSE
        LET i == high(v, x)
            j == low(v, x)
        IN  IF InBlock(v, i, j)
            THEN {[op |-> "successor", callee |-> "block", parent |-> v, i |-> i, arg |-> j]}
                     \cup SuccessorCalls(Blk(v, i), j)
            ELSE {[op |-> "successor", callee |-> "summary", parent |-> v, i |-> i, arg |-> i]}
                     \cup SuccessorCalls(v.summary, i)

RECURSIVE contains(_, _)

\* a plausible bug: the cached min is not looked at
containsWithoutMin(v, x) ==
    IF v.U < SMALL THEN Bit(v.small, x) = 1
    ELSE contains(Blk(v, high(v, x)), low(v, x))

contains(v, x) ==
    x = v.min \/ (IF v.U < SMALL THEN Bit(v.small, x) = 1
                  ELSE contains(Blk(v, high(v, x)), low(v, x)))

(* ---------------- the harness ---------------- *)

Universe == 0..(VEB.U - 1)

Members == {x \in Universe : table[x] = 1}

\* rand() % U: every value of a universe of one or two levels, DeepKeys of a
\* larger one
Inputs == IF VEB.U <= SMALL THEN Universe ELSE DeepKeys \cap Universe

\* the contract violation of the latest call, if it was one
NoFault == [kind |-> "none", op |-> "none", x |-> -1]

\* no second structure is driven next to VEB
NoTwin == [pol |-> "none"]

\* the result of the latest query, forgotten at the next insert or erase
NoQuery == [op |-> "none", ret |-> -1]

Init ==
    /\ VEB \in {NewGeneric(n) : n \in GenericSizes} \cup {NewPow2(b) : b \in Pow2Bits}
    /\ table = [x \in 0..(VEB.U - 1) |-> 0]
    /\ fault = NoFault
    /\ aborted = FALSE
    /\ twin = NoTwin
    /\ query = NoQuery

\* if (table[x] == 0) VEB->insert(x); table[x] = 1;
Insert(x) ==
    /\ ~aborted
    /\ fault = NoFault
    /\ table[x] = 0
    /\ Cardinality(Members) < MaxMembers
    /\ VEB' = insert(VEB, x)
    /\ table' = [table EXCEPT ![x] = 1]
    /\ query' = NoQuery
    /\ UNCHANGED <<fault, aborted, twin>>

\* table[x] = 0; VEB->erase(x);  for an x that is in the tree
Erase(x) ==
    /\ ~aborted
    /\ fault = NoFault
    /\ table[x] = 1
    /\ VEB' = erase(VEB, x)
    /\ table' = [table EXCEPT ![x] = 0]
    /\ query' = NoQuery
    /\ UNCHANGED <<fault, aborted, twin>>

\* VEB->insert(x) for an x that is in the tree already: no assert looks at
\* membership, the call runs
InsertMember(x) ==
    /\ ~aborted
    /\ fault = NoFault
    /\ table[x] = 1
    /\ VEB' = insert(VEB, x)
    /\ fault' = [kind |-> "member", op |-> "insert", x |-> x]
    /\ UNCHANGED <<table, aborted, twin, query>>

\* VEB->erase(x) for an x that is not in the tree (check_performance_VEB
\* erases rand() % U): no assert looks at membership, the call runs
EraseAbsent(x) ==
    /\ ~aborted
    /\ fault = NoFault
    /\ table[x] = 0
    /\ VEB' = erase(VEB, x)
    /\ fault' = [kind |-> "absent", op |-> "erase", x |-> x]
    /\ UNCHANGED <<table, aborted, twin, query>>

\* not the code: no assert, and an insert into an empty tree stores the
\* out-of-range x as min and max
OutOfRangeNoAssert(op, x) ==
    /\ ~aborted
    /\ fault = NoFault
    /\ ~(0 <= x /\ x < VEB.U)
    /\ op = "insert"
    /\ VEB.min = -1
    /\ VEB' = insert(VEB, x)
    /\ fault' = [kind |-> "range", op |-> op, x |-> x]
    /\ UNCHANGED <<table, aborted, twin, query>>

\* assert(0 <= x && x < U) of insert, erase and successor, in a build where
\* assert is active: the process aborts at the first statement
OutOfRange(op, x) ==
    /\ ~aborted
    /\ fault = NoFault
    /\ ~(0 <= x /\ x < VEB.U)
    /\ aborted' = TRUE
    /\ fault' = [kind |-> "range", op |-> op, x |-> x]
    /\ UNCHANGED <<VEB, table, twin, query>>

Next ==
    \/ \E x \in Inputs : Insert(x)
    \/ \E x \in Inputs : Erase(x)

Spec == Init /\ [][Next]_vars

NextChecked ==
    \/ Next
    \/ \E x \in Inputs : InsertMember(x)
    \/ \E x \in Inputs : EraseAbsent(x)
    \/ \E op \in {"insert", "erase", "successor"}, x \in {-1, VEB.U} : OutOfRange(op, x)

SpecChecked == Init /\ [][NextChecked]_vars

\* V* VEB = new V(U) for every size up to MaxSize and every bit width up to
\* MaxBits
InitFresh ==
    /\ VEB \in {NewGeneric(n) : n \in 1..MaxSize} \cup {NewPow2(b) : b \in 0..MaxBits}
    /\ table = [x \in 0..(VEB.U - 1) |-> 0]
    /\ fault = NoFault
    /\ aborted = FALSE
    /\ twin = NoTwin
    /\ query = NoQuery

\* the first insert into an empty tree
InsertFirst(x) == Members = {} /\ Insert(x)

NextFresh ==
    \/ \E x \in Universe : InsertFirst(x)
    \/ \E x \in Universe : Erase(x)

SpecFresh == InitFresh /\ [][NextFresh]_vars

\* the two variants next to each other for a universe U = 2^bits: VEB is the
\* generic V(U), twin the power-of-two V(bits), and the harness makes every
\* call on both
InitTwin ==
    /\ \E b \in Pow2Bits : VEB = NewGeneric(Shl1(b)) /\ twin = NewPow2(b)
    /\ table = [x \in 0..(VEB.U - 1) |-> 0]
    /\ fault = NoFault
    /\ aborted = FALSE
    /\ query = NoQuery

\* if (table[x] == 0) VEB->insert(x); table[x] = 1;   on both structures
InsertBoth(x) ==
    /\ ~aborted
    /\ fault = NoFault
    /\ table[x] = 0
    /\ Cardinality(Members) < MaxMembers
    /\ VEB' = insert(VEB, x)
    /\ twin' = insert(twin, x)
    /\ table' = [table EXCEPT ![x] = 1]
    /\ UNCHANGED <<fault, aborted, query>>

\* table[x] = 0; VEB->erase(x);   on both structures, for an x that is in them
EraseBoth(x) ==
    /\ ~aborted
    /\ fault = NoFault
    /\ table[x] = 1
    /\ VEB' = erase(VEB, x)
    /\ twin' = erase(twin, x)
    /\ table' = [table EXCEPT ![x] = 0]
    /\ UNCHANGED <<fault, aborted, query>>

NextTwin ==
    \/ \E x \in Inputs : InsertBoth(x)
    \/ \E x \in Inputs : EraseBoth(x)

SpecTwin == InitTwin /\ [][NextTwin]_vars

\* not the code: a successor that stores a found result in the root's max
SuccessorStoresResult(x) ==
    /\ ~aborted
    /\ fault = NoFault
    /\ query' = [op |-> "successor", ret |-> successor(VEB, x)]
    /\ VEB' = [VEB EXCEPT !.max = IF successor(VEB, x) # -1 THEN successor(VEB, x) ELSE @]
    /\ UNCHANGED <<table, fault, aborted, twin>>

\* VEB->successor(x) (getSuccessor's call, the membership test of the
\* generic harness): V::successor assigns its locals i and j only, no field
\* of any node
Successor(x) ==
    /\ ~aborted
    /\ fault = NoFault
    /\ query' = [op |-> "successor", ret |-> successor(VEB, x)]
    /\ UNCHANGED <<VEB, table, fault, aborted, twin>>

\* VEB->contains(x), which only the power-of-two variant has (a const member
\* function that is one return expression); the bool is kept as 0 or 1
Contains(x) ==
    /\ ~aborted
    /\ fault = NoFault
    /\ VEB.pol = "pow2"
    /\ query' = [op |-> "contains", ret |-> IF contains(VEB, x) THEN 1 ELSE 0]
    /\ UNCHANGED <<VEB, table, fault, aborted, twin>>

NextQuery ==
    \/ Next
    \/ \E x \in Inputs : Successor(x)
    \/ \E x \in Inputs : Contains(x)

\* the structures the queries are interleaved on: a leaf root and a root of
\* three levels, of both variants
InitQuery ==
    /\ VEB \in {NewGeneric(n) : n \in GenericSizes \ {1, SMALL}}
                  \cup {NewPow2(b) : b \in Pow2Bits \ {0, 5}}
    /\ table = [x \in 0..(VEB.U - 1) |-> 0]
    /\ fault = NoFault
    /\ aborted = FALSE
    /\ twin = NoTwin
    /\ query = NoQuery

SpecQuery == InitQuery /\ [][NextQuery]_vars

(* ---------------- reference notions ---------------- *)

SetMin(S) == CHOOSE m \in S : \A n \in S : m <= n

SetMax(S) == CHOOSE m \in S : \A n \in S : n <= m

IsLeaf(v) == v.U < SMALL

BlockIdx(v) == 0..(Len(v.block) - 1)

RECURSIVE Nodes(_)
\* the root, every summary and every block below v
Nodes(v) ==
    IF IsLeaf(v) THEN {v}
    ELSE {v} \cup Nodes(v.summary) \cup UNION {Nodes(Blk(v, i)) : i \in BlockIdx(v)}

RECURSIVE Held(_)
\* the set held by the subtree of v: its cached min, and what is stored below
Held(v) ==
    (IF v.min = -1 THEN {} ELSE {v.min})
    \cup (IF IsLeaf(v)
          THEN {i \in 0..(v.U - 1) : Bit(v.small, i) = 1}
          ELSE UNION {{index(v, i, j) : j \in Held(Blk(v, i))} : i \in BlockIdx(v)})

(* ---------------- C1 ---------------- *)

\* C1: after any sequence of precondition-respecting inserts and erases,
\* successor(x) is, for every x of the universe, the smallest member of the
\* reference table above x, and -1 exactly when there is none.
C1_SuccessorIsLeastAbove ==
    LET M == Members
    IN  \A x \in Universe :
            LET above == {m \in M : m > x}
            IN  /\ successor(VEB, x) = (IF above = {} THEN -1 ELSE SetMin(above))
                /\ (successor(VEB, x) = -1) <=> (above = {})

\* an internal node with three members where some successor comes from inside
\* a block, some from the next block, and some query has no successor
C1_Witness ==
    /\ ~IsLeaf(VEB)
    /\ Cardinality(Members) = 3
    /\ \E x \in Universe :
          /\ low(VEB, x) < Blk(VEB, high(VEB, x)).max
          /\ successor(VEB, x) > x
          /\ high(VEB, successor(VEB, x)) = high(VEB, x)
    /\ \E x \in Members :
          /\ successor(VEB, x) > x
          /\ high(VEB, successor(VEB, x)) > high(VEB, x)
    /\ \E x \in Universe : successor(VEB, x) = -1

(* ---------------- C2 ---------------- *)

\* C2: after every step of precondition-respecting inserts and erases,
\* contains(x) is true exactly when x is in the reference table, for every x
\* of the universe.
C2_ContainsMatchesTable ==
    \A x \in Universe : contains(VEB, x) <=> (table[x] = 1)

\* an internal node where one member is the root min, one the min of a block
\* and one a mask bit of a block
C2_Witness ==
    /\ ~IsLeaf(VEB)
    /\ \E x \in Members : x = VEB.min
    /\ \E x \in Members : x # VEB.min /\ low(VEB, x) = Blk(VEB, high(VEB, x)).min
    /\ \E x \in Members :
          /\ x # VEB.min
          /\ IsLeaf(Blk(VEB, high(VEB, x)))
          /\ Bit(Blk(VEB, high(VEB, x)).small, low(VEB, x)) = 1
    /\ \E x \in Universe : ~contains(VEB, x)

(* ---------------- C3 ---------------- *)

\* min and max of one node against the set its subtree holds
MinMaxOK(v) ==
    LET S == Held(v)
    IN  /\ (v.min = -1) <=> (S = {})
        /\ (v.max = -1) <=> (S = {})
        /\ S # {} => v.min = SetMin(S) /\ v.max = SetMax(S) /\ v.min <= v.max

\* C3: in every state reached by precondition-respecting inserts and erases,
\* at every node (root, summaries, blocks) min and max are the smallest and
\* largest element the node's subtree holds, both are -1 exactly when it holds
\* none, and min <= max otherwise; the root holds exactly the reference table,
\* so its min and max are the table's minimum and maximum.
C3_MinMaxAreExtremes ==
    /\ \A v \in Nodes(VEB) : MinMaxOK(v)
    /\ Held(VEB) = Members
    /\ Members # {} => VEB.min = SetMin(Members) /\ VEB.max = SetMax(Members)
    /\ Members = {} => VEB.min = -1 /\ VEB.max = -1

\* an internal node with two members: min and max are distinct, and the max
\* lives in a block
C3_Witness ==
    /\ ~IsLeaf(VEB)
    /\ Cardinality(Members) = 2
    /\ VEB.min < VEB.max
    /\ \E v \in Nodes(VEB.summary) : v.min # -1

(* ---------------- C4 ---------------- *)

MembersOf(t) == {x \in DOMAIN t : t[x] = 1}

\* what one insert or erase step leaves behind
C4_Step ==
    LET after == MembersOf(table')
    IN  /\ \A x \in after \ Members :
              /\ contains(VEB', x)
              /\ \A y \in 0..(x - 1) :
                    ({m \in after : y < m /\ m < x} = {}) => successor(VEB', y) = x
        /\ \A x \in Members \ after :
              /\ ~contains(VEB', x)
              /\ \A y \in Universe : successor(VEB', y) # x

\* successor(x - 1) == x tells membership of x, and the U = 8 scenario
C4_State ==
    /\ \A x \in Universe \ {0} : (successor(VEB, x - 1) = x) <=> (table[x] = 1)
    /\ (VEB.U = 8 /\ Members = {}) =>
          LET v1 == insert(VEB, 3)
              v2 == insert(v1, 5)
              v3 == erase(v2, 3)
          IN  /\ contains(v1, 3) /\ successor(v1, 0) = 3 /\ successor(v1, 3) = -1
              /\ successor(v2, 3) = 5
              /\ ~contains(v3, 3) /\ successor(v3, 0) = 5
    /\ (VEB.U = 8 /\ Members = {3}) =>
          contains(VEB, 3) /\ successor(VEB, 0) = 3 /\ successor(VEB, 3) = -1
    /\ (VEB.U = 8 /\ Members = {3, 5}) => successor(VEB, 3) = 5
    /\ (VEB.U = 8 /\ Members = {5}) => ~contains(VEB, 3) /\ successor(VEB, 0) = 5

\* C4: round trip. After insert(x) of a non-member, contains(x) holds and
\* successor(y) = x for every y < x with no member in between (so, for
\* x >= 1, successor(x - 1) = x exactly when x is a member); after erase(x) of
\* a member, contains(x) is false and no successor query returns x. With
\* U = 8, insert 3, insert 5, erase 3 give the listed results.
C4_RoundTrip == [](C4_State) /\ [][C4_Step]_vars

\* the end of the U = 8 scenario: 3 was inserted and erased again, 5 is left
C4_Witness ==
    /\ VEB.U = 8
    /\ Members = {5}
    /\ ~contains(VEB, 3)
    /\ successor(VEB, 0) = 5

(* ---------------- C5 ---------------- *)

Fresh == {NewGeneric(n) : n \in 1..MaxSize} \cup {NewPow2(b) : b \in 0..MaxBits}

\* C5: a freshly constructed structure of any size (leaf or internal, either
\* policy) reports contains(x) = false and successor(x) = -1 for every x of
\* its universe: the x < min guard does not fire, high(x) is an existing block
\* and an index of the summary, the block's max does not send the query into
\* the block, and the empty mask or the empty summary gives -1.
C5_FreshReportsNothing ==
    VEB \in Fresh =>
        \A x \in Universe :
            /\ ~(x < VEB.min)
            /\ IsLeaf(VEB) => VEB.small = 0
            /\ ~IsLeaf(VEB) =>
                  /\ high(VEB, x) \in BlockIdx(VEB)
                  /\ high(VEB, x) < VEB.summary.U
                  /\ ~InBlock(VEB, high(VEB, x), low(VEB, x))
                  /\ successor(VEB.summary, high(VEB, x)) = -1
            /\ ~contains(VEB, x)
            /\ successor(VEB, x) = -1

\* a fresh internal node of the generic variant with more blocks than the
\* block size, whose last block reaches beyond the universe
C5_Witness ==
    /\ VEB \in Fresh
    /\ ~IsLeaf(VEB)
    /\ VEB.pol = "generic"
    /\ Len(VEB.block) * VEB.B > VEB.U
    /\ Len(VEB.block) > VEB.B

(* ---------------- C6, C7, C8: calls that break the contract ---------------- *)

\* the summary of one internal node against its blocks
SummaryOK(v) ==
    /\ v.summary.U = Len(v.block)
    /\ \A i \in BlockIdx(v) : contains(v.summary, i) <=> (Blk(v, i).min # -1)
    /\ \A i \in BlockIdx(v) :
          LET i2 == successor(v.summary, i)
          IN  i2 # -1 => i2 \in BlockIdx(v) /\ Blk(v, i2).min # -1

RECURSIVE Below(_)
\* what the subtree of v stores below its cached min: the mask bits of a leaf,
\* the elements of the blocks of an internal node
Below(v) ==
    IF IsLeaf(v)
    THEN {i \in 0..(v.U - 1) : Bit(v.small, i) = 1}
    ELSE UNION {{index(v, i, j) : j \in Held(Blk(v, i))} : i \in BlockIdx(v)}

\* the min is cached only: it is in no mask and in no child
MinCachedOnly(v) == v.min = -1 \/ v.min \notin Below(v)

\* the data model invariants of one node
NodeInv(v) ==
    /\ MinMaxOK(v)
    /\ MinCachedOnly(v)
    /\ ~IsLeaf(v) => SummaryOK(v)

RECURSIVE HitsNestedMin(_, _)
\* x, a member of v other than v.min, is the min of a block on its way down
HitsNestedMin(v, x) ==
    IF IsLeaf(v) THEN FALSE
    ELSE \/ low(v, x) = Blk(v, high(v, x)).min
         \/ HitsNestedMin(Blk(v, high(v, x)), low(v, x))

\* the call of this step is insert(x) for a member x
ReInsert(x) == fault'.kind = "member" /\ fault'.x = x

\* C6 as claimed: insert(x) for any member x other than the root's min changes
\* the state and leaves a state that violates the invariants.
C6_Original ==
    [][\A x \in Universe :
          (ReInsert(x) /\ x # VEB.min) =>
              /\ VEB' # VEB
              /\ \E v \in Nodes(VEB') : ~NodeInv(v)]_vars

\* C6 (amended): insert(x) for a member x other than the root's min changes
\* the state exactly when x is, on its way down, the min of a nested block;
\* the state it leaves then has that min duplicated below the block (in its
\* mask or in a child) and violates the invariants. For every other member,
\* so for every member of a leaf root, insert(x) leaves the state unchanged.
C6_ReInsertOfMember ==
    [][\A x \in Universe :
          (ReInsert(x) /\ x # VEB.min) =>
              /\ table' = table /\ ~aborted'
              /\ IF HitsNestedMin(VEB, x)
                 THEN /\ VEB' # VEB
                      /\ \E v \in Nodes(VEB') : v.min # -1 /\ ~MinCachedOnly(v)
                      /\ \E v \in Nodes(VEB') : ~NodeInv(v)
                 ELSE VEB' = VEB]_vars

\* insert(x) was called again for the min of a block: the block's min is in
\* the block's mask now
C6_Witness ==
    /\ fault.kind = "member"
    /\ fault.x # VEB.min
    /\ ~IsLeaf(VEB)
    /\ LET b == Blk(VEB, high(VEB, fault.x))
       IN  IsLeaf(b) /\ b.min = low(VEB, fault.x) /\ Bit(b.small, b.min) = 1

\* C7 as claimed: insert(x) with x the current min is short-circuited and
\* leaves the whole state unchanged.
C7_Original ==
    [][(VEB.min # -1 /\ ReInsert(VEB.min)) => VEB' = VEB]_vars

\* C7 (amended): no test covers x == min. insert(x) with x the current min of
\* a non-empty node leaves min and max as they are but stores x below the
\* node as well: a leaf sets bit x of its mask, an internal node inserts
\* low(x) into block[high(x)] (and high(x) into the summary when that block
\* was empty); the state changes and the min is no longer cached only.
C7_ReInsertOfMin ==
    [][(VEB.min # -1 /\ ReInsert(VEB.min)) =>
          /\ VEB'.min = VEB.min /\ VEB'.max = VEB.max
          /\ table' = table /\ ~aborted'
          /\ VEB' # VEB
          /\ ~MinCachedOnly(VEB')
          /\ IsLeaf(VEB) => VEB'.small = SetBit(VEB.small, VEB.min)
          /\ ~IsLeaf(VEB) =>
                LET i == high(VEB, VEB.min)
                IN  /\ contains(Blk(VEB', i), low(VEB, VEB.min))
                    /\ contains(VEB'.summary, i)
                    /\ \A k \in BlockIdx(VEB) \ {i} : Blk(VEB', k) = Blk(VEB, k)]_vars

\* insert(min) was called on an internal node with two members: the min is
\* now in a block too
C7_Witness ==
    /\ fault.kind = "member"
    /\ fault.x = VEB.min
    /\ ~IsLeaf(VEB)
    /\ Cardinality(Members) = 2
    /\ contains(Blk(VEB, high(VEB, VEB.min)), low(VEB, VEB.min))

\* C8 as claimed: every contract violation ends in an abort.
C8_Original == fault.kind # "none" => aborted

\* C8 (amended): with the asserts active, every call of insert, erase or
\* successor with x outside [0, U) aborts before any field is modified. The
\* asserts look at the range only: an insert of a member and an erase of a
\* non-member are not detected, they run and do not abort.
C8_RangeIsChecked ==
    /\ [](aborted <=> fault.kind = "range")
    /\ [][/\ fault'.kind = "range" =>
                /\ ~(0 <= fault'.x /\ fault'.x < VEB.U)
                /\ aborted' /\ VEB' = VEB /\ table' = table
          /\ fault'.kind \in {"member", "absent"} =>
                /\ 0 <= fault'.x /\ fault'.x < VEB.U
                /\ ~aborted'
                /\ VEB' = (IF fault'.op = "insert" THEN insert(VEB, fault'.x)
                                                   ELSE erase(VEB, fault'.x))]_vars

\* successor(U) was called on a tree with members, and the process aborted
C8_Witness ==
    /\ aborted
    /\ fault = [kind |-> "range", op |-> "successor", x |-> VEB.U]
    /\ Cardinality(Members) = 2

(* ---------------- C9 ---------------- *)

\* C9: in every state reached by precondition-respecting inserts and erases,
\* at every internal node, block index i is a member of the summary exactly
\* when block[i].min # -1; so whenever summary.successor(i) returns some
\* i' # -1, block[i'].min # -1 (the assertion in successor).
C9_SummaryInvariant ==
    \A v \in Nodes(VEB) : ~IsLeaf(v) => SummaryOK(v)

\* a root of three levels: its first block is an internal node that holds two
\* elements, so the root's summary and that block's summary are both non-empty
C9_Witness ==
    /\ ~IsLeaf(VEB)
    /\ ~IsLeaf(Blk(VEB, 0))
    /\ VEB.summary.min = 0
    /\ Blk(VEB, 0).min # -1
    /\ Blk(VEB, 0).summary.min # -1
    /\ successor(Blk(VEB, 0).summary, 0) = -1

(* ---------------- C10 ---------------- *)

\* what a node stores below its cached min, given the set S it holds
Rest(S) == IF S = {} THEN {} ELSE S \ {SetMin(S)}

RECURSIVE LeafMaskOK(_, _)
\* the mask of every leaf below v, when v is to hold the set S
LeafMaskOK(v, S) ==
    IF IsLeaf(v)
    THEN /\ v.small < Shl1(v.U)
         /\ \A i \in 0..(v.U - 1) : (Bit(v.small, i) = 1) <=> (i \in S /\ i # v.min)
    ELSE /\ LeafMaskOK(v.summary, {high(v, x) : x \in Rest(S)})
         /\ \A i \in BlockIdx(v) :
               LeafMaskOK(Blk(v, i), {low(v, x) : x \in {y \in Rest(S) : high(v, y) = i}})

\* the lowest set bit of a non-zero mask
LowestBit(m) == CHOOSE i \in 0..30 : Bit(m, i) = 1 /\ \A k \in 0..(i - 1) : Bit(m, k) = 0

\* a leaf erase of the min promotes the lowest mask bit and clears it; a leaf
\* insert below the min sets the old min's bit and not the new min's
C10_Step ==
    (IsLeaf(VEB) /\ VEB.min # -1) =>
        /\ (table[VEB.min] = 1 /\ table'[VEB.min] = 0 /\ VEB.small # 0) =>
              /\ VEB'.min = LowestBit(VEB.small)
              /\ VEB'.small = ClearBit(VEB.small, VEB'.min)
        /\ \A x \in 0..(VEB.min - 1) :
              (table[x] = 0 /\ table'[x] = 1) =>
                  /\ VEB'.min = x
                  /\ VEB'.small = SetBit(VEB.small, VEB.min)
                  /\ Bit(VEB'.small, x) = 0

\* C10: in every state reached by precondition-respecting inserts and erases,
\* at every leaf and for every i of its universe, bit i of the mask is set
\* exactly when i is a member of the leaf's set and i # min; in particular
\* after a leaf erase that removes the min and after a leaf insert below the
\* old min.
C10_LeafMaskInvariant == [](LeafMaskOK(VEB, Members)) /\ [][C10_Step]_vars

\* an internal node with a mask bit in a block: the block holds two elements
\* and its min is not in its mask
C10_Witness ==
    /\ ~IsLeaf(VEB)
    /\ Cardinality(Members) = 3
    /\ \E i \in BlockIdx(VEB) :
          /\ IsLeaf(Blk(VEB, i))
          /\ Blk(VEB, i).small # 0
          /\ Bit(Blk(VEB, i).small, Blk(VEB, i).min) = 0

(* ---------------- C11 ---------------- *)

RECURSIVE ChildrenHoldRest(_, _)
\* every internal node at or below v, when v is to hold the set S: its min is
\* the least of S, its blocks hold S without that min, and with at most one
\* element its summary and all its blocks are empty
ChildrenHoldRest(v, S) ==
    IF IsLeaf(v) THEN TRUE
    ELSE /\ v.min = (IF S = {} THEN -1 ELSE SetMin(S))
         /\ Below(v) = Rest(S)
         /\ v.min \notin Below(v)
         /\ Cardinality(S) <= 1 =>
               /\ v.summary.min = -1
               /\ \A i \in BlockIdx(v) : Blk(v, i).min = -1
         /\ ChildrenHoldRest(v.summary, {high(v, x) : x \in Rest(S)})
         /\ \A i \in BlockIdx(v) :
               ChildrenHoldRest(Blk(v, i), {low(v, x) : x \in {y \in Rest(S) : high(v, y) = i}})

\* erase of the min of an internal root with more than one element promotes
\* index(summary.min, block[summary.min].min) and takes it out of its block
C11_Step ==
    (/\ ~IsLeaf(VEB)
     /\ Cardinality(Members) > 1
     /\ table[VEB.min] = 1 /\ table'[VEB.min] = 0) =>
        LET i == VEB.summary.min
            j == Blk(VEB, i).min
        IN  /\ VEB'.min = index(VEB, i, j)
            /\ Held(Blk(VEB', i)) = Held(Blk(VEB, i)) \ {j}
            /\ \A k \in BlockIdx(VEB) \ {i} : Blk(VEB', k) = Blk(VEB, k)

\* C11: at every internal node the node's min is not stored in any child: the
\* union over the blocks i of {index(i, j) : j in block[i]'s set} is the member
\* set minus {min}. A node with one element has an empty summary and only
\* empty blocks, and erasing the min of a node with more than one element
\* promotes index(summary.min, block[summary.min].min) to min and removes that
\* value from its block.
C11_MinNotInChildren == [](ChildrenHoldRest(VEB, Members)) /\ [][C11_Step]_vars

\* a root of three levels holding 0, 1 and 2: 0 is cached at the root, its
\* first block holds 1 and 2 and caches 1, so only 2 is below that block
C11_Witness ==
    /\ ~IsLeaf(VEB)
    /\ ~IsLeaf(Blk(VEB, 0))
    /\ Members = {0, 1, 2}
    /\ Below(VEB) = {1, 2}
    /\ Blk(VEB, 0).min = 1
    /\ Below(Blk(VEB, 0)) = {2}

(* ---------------- C12 ---------------- *)

\* the call of this step is erase(x) for an x that is not a member
EraseOfAbsent(x) == fault'.kind = "absent" /\ fault'.x = x

\* C12: in every state reached by precondition-respecting operations, for
\* every x in [0, U) that is not a member, erase(x) leaves the entire structure
\* (min, max, mask, summary and blocks at every node) unchanged; the harness
\* erases such values (a value drawn twice, a random value).
C12_EraseAbsentIsNoOp ==
    [][\A x \in Universe :
          EraseOfAbsent(x) =>
              /\ table[x] = 0
              /\ VEB' = VEB
              /\ table' = table
              /\ ~aborted']_vars

\* erase(x) ran for an absent x of a block that holds two other elements, on
\* an internal root with three members
C12_Witness ==
    /\ fault.kind = "absent"
    /\ table[fault.x] = 0
    /\ ~IsLeaf(VEB)
    /\ Cardinality(Members) = 3
    /\ Cardinality(Held(Blk(VEB, high(VEB, fault.x)))) = 2

(* ---------------- C13 ---------------- *)

\* the nested calls of insert(x) keep the contract: the argument is not in
\* the child, and the summary is called exactly at the nodes whose block goes
\* from empty to non-empty
InsertCallsOK(x) ==
    LET calls == InsertCalls(VEB, x)
    IN  \A c \in calls :
           /\ ~contains(Callee(c), c.arg)
           /\ c.callee = "block" =>
                 ((\E s \in calls : s.callee = "summary" /\ s.parent = c.parent /\ s.i = c.i)
                     <=> (/\ Blk(c.parent, c.i).min = -1
                          /\ insert(Blk(c.parent, c.i), c.arg).min # -1))

\* the nested calls of erase(x) keep the contract: the argument is in the
\* child, and the summary is called exactly at the nodes whose block goes
\* from non-empty to empty
EraseCallsOK(x) ==
    LET calls == EraseCalls(VEB, x)
    IN  \A c \in calls :
           /\ contains(Callee(c), c.arg)
           /\ c.callee = "block" =>
                 ((\E s \in calls : s.callee = "summary" /\ s.parent = c.parent /\ s.i = c.i)
                     <=> (/\ Blk(c.parent, c.i).min # -1
                          /\ erase(Blk(c.parent, c.i), c.arg).min = -1))

\* C13: if the top-level call respects its precondition (insert of a
\* non-member, erase of a member), every nested call does too: summary.insert(i)
\* is called only when i is not in summary (exactly when block[i] goes from
\* empty to non-empty), block[i].insert(j) only when j is not in block[i],
\* block[high(x)].erase(low(x)) only when low(x) is in that block, and
\* summary.erase(high(x)) only when high(x) is in summary (exactly when the
\* block goes from non-empty to empty).
C13_NestedPreconditions ==
    \A x \in Inputs : IF x \in Members THEN EraseCallsOK(x) ELSE InsertCallsOK(x)

\* a root of three levels where an insert goes through the root's non-empty
\* summary and an erase empties a block of an internal block, so that both
\* make summary calls below the root
C13_Witness ==
    /\ ~IsLeaf(VEB)
    /\ ~IsLeaf(VEB.summary)
    /\ \E x \in Inputs \ Members :
          \E c \in InsertCalls(VEB, x) :
             c.callee = "summary" /\ c.parent = VEB /\ VEB.summary.min # -1
    /\ \E x \in Members :
          \E c \in EraseCalls(VEB, x) : c.callee = "summary" /\ c.parent # VEB

(* ---------------- C14 ---------------- *)

\* the decomposition of one internal node stays inside its children, and a
\* generic node has the least block count that covers its universe
RangeSafe(v) ==
    /\ \A x \in 0..(v.U - 1) :
          /\ high(v, x) \in BlockIdx(v)
          /\ 0 <= high(v, x) /\ high(v, x) < v.summary.U
          /\ 0 <= low(v, x) /\ low(v, x) < Blk(v, high(v, x)).U
    /\ v.pol = "generic" =>
          /\ Len(v.block) * Sqrt(v.U) >= v.U
          /\ \A n \in 0..(Len(v.block) - 1) : n * Sqrt(v.U) < v.U

\* the x of every nested call lies in the universe of the node it goes to
CallInRange(c) == 0 <= c.arg /\ c.arg < Callee(c).U

\* what successor recombines with index(i, j) at the node that makes call c
RecombinedInRange(c) ==
    LET r == successor(Callee(c), c.arg)
        inU(y) == 0 <= y /\ y < c.parent.U
    IN  IF c.callee = "block"
        THEN /\ 0 <= r /\ r < Callee(c).U
             /\ inU(index(c.parent, c.i, r))
        ELSE /\ -1 <= r /\ r < Callee(c).U
             /\ r # -1 =>
                   /\ Blk(c.parent, r).min # -1
                   /\ inU(index(c.parent, r, Blk(c.parent, r).min))

\* C14: for every node with U >= 32 and every x in [0, U), high(x) is a valid
\* index into block and lies in [0, summary.U), and low(x) lies in
\* [0, block[high(x)].U); the generic block count is the least n with
\* n * floor(sqrt(U)) >= U; every value recombined by index(i, j) inside erase
\* (it becomes the node's min or max) and inside successor lies in [0, U); a
\* node without blocks has U <= 31, so every leaf shift 1 << x has
\* 0 <= x < 31. Hence the range assertion holds in every nested call of a
\* call that satisfies it at the root.
C14_RangeSafety ==
    /\ \A v \in Nodes(VEB) :
          /\ v.block # <<>> => RangeSafe(v)
          /\ v.block = <<>> => v.U - 1 < 31
          /\ -1 <= v.min /\ v.min < v.U
          /\ -1 <= v.max /\ v.max < v.U
    /\ Members = {} => \A f \in Fresh : \A v \in Nodes(f) : v.block # <<>> => RangeSafe(v)
    /\ \A x \in Inputs :
          /\ \A c \in SuccessorCalls(VEB, x) : CallInRange(c) /\ RecombinedInRange(c)
          /\ x \in Members => \A c \in EraseCalls(VEB, x) : CallInRange(c)
          /\ x \notin Members => \A c \in InsertCalls(VEB, x) : CallInRange(c)

\* the generic U = 32 with 0, 30 and 31: successor(30) goes into the last
\* block, whose highest offset would recombine to 34, and returns 31
C14_Witness ==
    /\ VEB.pol = "generic"
    /\ VEB.U = 32
    /\ Members = {0, 30, 31}
    /\ \E c \in SuccessorCalls(VEB, 30) : c.callee = "block" /\ c.i = 6
    /\ successor(VEB, 30) = 31
    /\ index(VEB, 6, Blk(VEB, 6).U - 1) = 34

(* ---------------- C15 ---------------- *)

\* splitting and recombining at one internal node
RoundTrip(v) ==
    /\ \A x \in 0..(v.U - 1) : index(v, high(v, x), low(v, x)) = x
    /\ \A i \in BlockIdx(v) :
          \A j \in 0..(Blk(v, i).U - 1) :
             /\ high(v, index(v, i, j)) = i
             /\ low(v, index(v, i, j)) = j

\* C15: for both policies (generic: high = x / B, low = x % B,
\* index = i * B + j with B = floor(sqrt(U)); power of two: high = x >> B,
\* low = x & (2^B - 1), index = i << B | j with B = bits / 2) and every x in
\* [0, U) of every internal node, index(high(x), low(x)) = x; and for every
\* block index i and offset j in [0, block size), high(index(i, j)) = i and
\* low(index(i, j)) = j.
C15_SplitRecombine ==
    \A v \in Nodes(VEB) :
       ~IsLeaf(v) =>
          /\ v.B = (IF v.pol = "pow2" THEN (CHOOSE b \in 0..30 : Shl1(b) = v.U) \div 2
                                       ELSE Sqrt(v.U))
          /\ \A i \in BlockIdx(v) : Blk(v, i).U = (IF v.pol = "pow2" THEN Shl1(v.B) ELSE v.B)
          /\ RoundTrip(v)

\* an internal node whose blocks do not tile the universe exactly (block
\* count times block size exceeds U), holding one element of its last block
C15_Witness ==
    /\ ~IsLeaf(VEB)
    /\ Len(VEB.block) * Blk(VEB, 0).U > VEB.U
    /\ VEB.min # -1
    /\ high(VEB, VEB.min) = Len(VEB.block) - 1
    /\ index(VEB, high(VEB, VEB.min), low(VEB, VEB.min)) = VEB.min

(* ---------------- C16 ---------------- *)

\* the freshly constructed structure of the size and policy of v
FreshOf(v) ==
    IF v.pol = "generic" THEN NewGeneric(v.U)
    ELSE NewPow2(CHOOSE b \in 0..30 : Shl1(b) = v.U)

RECURSIVE BuildAsc(_, _)
\* v after the inserts of the elements of S in ascending order
BuildAsc(v, S) ==
    IF S = {} THEN v ELSE BuildAsc(insert(v, SetMin(S)), S \ {SetMin(S)})

RECURSIVE BuildDesc(_, _)
\* v after the inserts of the elements of S in descending order
BuildDesc(v, S) ==
    IF S = {} THEN v ELSE BuildDesc(insert(v, SetMax(S)), S \ {SetMax(S)})

\* C16: for a fixed U and policy the complete internal state is a function of
\* the member set alone: whatever sequence of precondition-respecting inserts
\* and erases led to the state, it is the state that inserting the members in
\* ascending order (or in descending order) into a fresh structure gives. In
\* particular insert(x) followed by erase(x) for a non-member x restores the
\* exact state, insert(a); insert(b) and insert(b); insert(a) give the same
\* state, and with all members erased the state is the freshly constructed one
\* (every min = max = -1, every mask = 0).
C16_Canonical ==
    /\ VEB = BuildAsc(FreshOf(VEB), Members)
    /\ VEB = BuildDesc(FreshOf(VEB), Members)
    /\ \A x \in Inputs \ Members : erase(insert(VEB, x), x) = VEB
    /\ Cardinality(Members) + 2 <= MaxMembers =>
          \A a, b \in Inputs \ Members :
             a < b => insert(insert(VEB, a), b) = insert(insert(VEB, b), a)
    /\ Members = {} =>
          /\ VEB = FreshOf(VEB)
          /\ \A v \in Nodes(VEB) : v.min = -1 /\ v.max = -1 /\ v.small = 0

\* a root of three levels with three members, two of them in its first
\* block: the state differs from the fresh one and is the one the
\* descending inserts give
C16_Witness ==
    /\ ~IsLeaf(VEB)
    /\ ~IsLeaf(Blk(VEB, 0))
    /\ Cardinality(Members) = 3
    /\ Cardinality(Held(Blk(VEB, 0))) = 2
    /\ VEB # FreshOf(VEB)
    /\ VEB = BuildDesc(FreshOf(VEB), Members)

(* ---------------- C17 ---------------- *)

RECURSIVE Height(_)
\* the number of internal levels at and below v
Height(v) ==
    IF IsLeaf(v) THEN 0
    ELSE LET hs == Height(v.summary)
             hb == Height(Blk(v, 0))
         IN  1 + (IF hs > hb THEN hs ELSE hb)

\* every nested call goes to a node of a strictly smaller universe
Descends(v) ==
    /\ v.summary.U < v.U
    /\ \A i \in BlockIdx(v) : Blk(v, i).U < v.U

\* of the calls that one node makes, at most one makes calls itself
OneRecurses(calls, Sub(_, _)) ==
    \A c, d \in calls :
       (c.parent = d.parent /\ c # d) => (Sub(Callee(c), c.arg) = {} \/ Sub(Callee(d), d.arg) = {})

\* insert(x) on the empty node v: min = max = x and nothing else
EmptyInsertOK(v, x) ==
    /\ insert(v, x) = [v EXCEPT !.min = x, !.max = x]
    /\ InsertCalls(v, x) = {}

InsertSinglePath(x) ==
    LET calls == InsertCalls(VEB, x)
    IN  /\ Cardinality(calls) <= 2 * Height(VEB)
        /\ OneRecurses(calls, InsertCalls)
        /\ VEB.min = -1 => EmptyInsertOK(VEB, x)
        /\ \A c \in calls :
              /\ Callee(c).min = -1 => EmptyInsertOK(Callee(c), c.arg)
              /\ c.callee = "summary" =>
                    \E b \in calls :
                       /\ b.callee = "block" /\ b.parent = c.parent /\ b.i = c.i
                       /\ Callee(b).min = -1
                       /\ EmptyInsertOK(Callee(b), b.arg)

EraseSinglePath(x) ==
    LET calls == EraseCalls(VEB, x)
    IN  /\ Cardinality(calls) <= 2 * Height(VEB)
        /\ OneRecurses(calls, EraseCalls)
        /\ \A c \in calls :
              c.callee = "summary" =>
                 \E b \in calls :
                    /\ b.callee = "block" /\ b.parent = c.parent /\ b.i = c.i
                    /\ Held(Callee(b)) = {b.arg}
                    /\ EraseCalls(Callee(b), b.arg) = {}
                    /\ erase(Callee(b), b.arg) = [Callee(b) EXCEPT !.min = -1, !.max = -1]

\* the calls that node p makes itself
Direct(calls, p) == {c \in calls : c.parent = p}

SuccessorSinglePath(x) ==
    LET calls == SuccessorCalls(VEB, x)
        visits == {[node |-> VEB, x |-> x]} \cup {[node |-> Callee(c), x |-> c.arg] : c \in calls}
    IN  /\ Cardinality(calls) <= Height(VEB)
        /\ \A p \in visits :
              Cardinality(Direct(calls, p.node)) =
                 (IF IsLeaf(p.node) \/ p.x < p.node.min THEN 0 ELSE 1)

\* C17: every precondition-respecting call terminates (each nested call goes
\* to a strictly smaller universe and the number of nested calls is bounded by
\* the height), and at each internal level at most one nested call recurses
\* further. insert into an empty node only sets min = max = x and touches no
\* child or mask; when insert calls summary.insert(i), the following
\* block[i].insert(j) takes that empty-node branch; when erase calls
\* summary.erase(high(x)), the preceding block erase removed the block's only
\* element without recursing into the block's children; successor makes
\* exactly one of block.successor or summary.successor.
C17_SinglePath ==
    /\ \A v \in Nodes(VEB) : ~IsLeaf(v) => Descends(v)
    /\ \A x \in Inputs :
          /\ SuccessorSinglePath(x)
          /\ IF x \in Members THEN EraseSinglePath(x) ELSE InsertSinglePath(x)

\* a root of three levels where an insert of a new element calls
\* summary.insert on the non-empty internal summary, which recurses, and an
\* erase of a member calls summary.erase, which recurses
C17_Witness ==
    /\ Height(VEB) = 2
    /\ VEB.summary.min # -1
    /\ \E x \in Inputs \ Members :
          \E c \in InsertCalls(VEB, x) :
             c.callee = "summary" /\ c.parent = VEB /\ InsertCalls(Callee(c), c.arg) # {}
    /\ \E x \in Members :
          \E c \in EraseCalls(VEB, x) :
             c.callee = "summary" /\ c.parent = VEB /\ EraseCalls(Callee(c), c.arg) # {}

(* ---------------- C18 ---------------- *)

\* C18: for a power-of-two universe U = 2^bits, the generic node V(U) and the
\* power-of-two node V(bits), driven side by side by the same
\* precondition-respecting sequence of insert and erase calls, return the same
\* successor(x) for every x in [0, U) and hold the same root min and max after
\* every step, even where their block size and block count differ.
C18_PolicyEquivalence ==
    /\ VEB.pol = "generic" /\ twin.pol = "pow2" /\ twin.U = VEB.U
    /\ twin.min = VEB.min
    /\ twin.max = VEB.max
    /\ \A x \in Universe : successor(twin, x) = successor(VEB, x)

\* U = 32 with 4 and 5 among three members: 7 blocks of 5 against 8 blocks of
\* 4, so 4 and 5 are in two blocks of the generic node and in one block of the
\* power-of-two node, and both answer successor(4) = 5
C18_Witness ==
    /\ VEB.U = 32
    /\ Len(VEB.block) = 7 /\ Blk(VEB, 0).U = 5
    /\ Len(twin.block) = 8 /\ Blk(twin, 0).U = 4
    /\ Cardinality(Members) = 3
    /\ {4, 5} \subseteq Members
    /\ high(VEB, 4) # high(VEB, 5)
    /\ high(twin, 4) = high(twin, 5)
    /\ successor(VEB, 4) = 5
    /\ successor(twin, 4) = 5

(* ---------------- C19 ---------------- *)

\* a step that is a query: it leaves a result (an insert or erase clears it)
QueryStep == query' # NoQuery

====
